---- MODULE Spec2Model ----
(***************************************************************************)
(* Model of src/simulators/commands.ts (first definition of the module,    *)
(* lines 1-376): the simulator log streaming session.                      *)
(*                                                                         *)
(* Text is modelled as a sequence of tokens.  A token is an indivisible    *)
(* piece of text ("(", " ", "MyApp", ".debug.dylib", "error", ...); the    *)
(* literals the code searches for are token sequences, so includes(),      *)
(* split() and the regular expressions are evaluated position by position  *)
(* over tokens exactly as the code evaluates them over characters.         *)
(***************************************************************************)
EXTENDS Integers, Sequences, FiniteSets, TLC

(***************************************************************************)
(* Bounds of the model.                                                    *)
(***************************************************************************)
\* the number of start requests plus data chunks of a run
MaxEvents == 4

(***************************************************************************)
(* Values.                                                                 *)
(***************************************************************************)
NoProc == 0
NoCode == {}
ENOENT == 0 - 2

VARIABLES
  logsProcess,
  outputChannel,
  procs,
  sink,
  visible,
  clearCount,
  ndata,
  lastOp

vars == <<logsProcess, outputChannel, procs, sink, visible, clearCount, ndata, lastOp>>

(***************************************************************************)
(* Token-sequence helpers (String.prototype methods used by the code).     *)
(***************************************************************************)
Lower(tok) ==
  CASE tok = "MyApp" -> "myapp"
    [] tok = "MYAPP" -> "myapp"
    [] tok = "Error" -> "error"
    [] tok = "Warn" -> "warn"
    [] tok = "Debug" -> "debug"
    [] tok = "Info" -> "info"
    [] tok = "Fault" -> "fault"
    [] tok = "Loaded" -> "loaded"
    [] tok = "UI" -> "ui"
    [] tok = "Network" -> "network"
    [] OTHER -> tok

toLowerCase(s) == [i \in 1..Len(s) |-> Lower(s[i])]

StartsAt(s, sub, i) ==
  /\ i >= 1
  /\ i + Len(sub) - 1 <= Len(s)
  /\ \A k \in 1..Len(sub) : s[i + k - 1] = sub[k]

includes(s, sub) == \E i \in 1..(Len(s) + 1) : StartsAt(s, sub, i)

endsWith(s, sub) == Len(s) >= Len(sub) /\ StartsAt(s, sub, Len(s) - Len(sub) + 1)

RECURSIVE split(_, _)
split(s, sep) ==
  IF \E i \in 1..Len(s) : s[i] = sep
  THEN LET i == CHOOSE i \in 1..Len(s) : s[i] = sep /\ \A j \in 1..(i - 1) : s[j] # sep
       IN <<SubSeq(s, 1, i - 1)>> \o split(SubSeq(s, i + 1, Len(s)), sep)
  ELSE <<s>>

Min(S) == CHOOSE x \in S : \A y \in S : x <= y

Max(S) == CHOOSE x \in S : \A y \in S : x >= y

(***************************************************************************)
(* extractAppName (lines 211-220) and the filter key (lines 62-64).        *)
(***************************************************************************)
\* appPath.match(/\/([^\/]+\.app)\/?$/): the set holding capture group 1, or {}
appNameMatch(appPath) ==
  LET s == IF Len(appPath) > 0 /\ appPath[Len(appPath)] = "/"
           THEN SubSeq(appPath, 1, Len(appPath) - 1)
           ELSE appPath
      slashes == {i \in 1..Len(s) : s[i] = "/"}
  IN IF slashes = {} THEN {}
     ELSE LET seg == SubSeq(s, Max(slashes) + 1, Len(s))
          IN IF Len(seg) >= 2 /\ seg[Len(seg)] = ".app" THEN {seg} ELSE {}

extractAppName(appPath) ==
  IF appNameMatch(appPath) # {}
  THEN CHOOSE seg \in appNameMatch(appPath) : TRUE
  ELSE LET parts == split(appPath, "/")
           lastPart == parts[Len(parts)]
       IN IF endsWith(lastPart, <<".app">>) THEN lastPart ELSE lastPart \o <<".app">>

\* appName.replace(/\.app$/, '')
baseAppName(appName) ==
  IF endsWith(appName, <<".app">>) THEN SubSeq(appName, 1, Len(appName) - 1) ELSE appName

debugDylibPattern(base) == base \o <<".debug.dylib">>

(***************************************************************************)
(* The stdout line filter and formatter (lines 103-173).                   *)
(***************************************************************************)
IsSpace(tok) == tok \in {" ", "\t"}

\* new RegExp(`(?:loaded|from|by) .*?${baseAppName}\\.debug\\.dylib`, 'i').test(line)
logPattern(line, base) ==
  \E i \in 1..Len(line) :
    /\ Lower(line[i]) \in {"loaded", "from", "by"}
    /\ i + 1 <= Len(line)
    /\ line[i + 1] = " "
    /\ \E k \in (i + 2)..(Len(line) + 1) :
         StartsAt(toLowerCase(line), toLowerCase(debugDylibPattern(base)), k)

HarmlessNotice == <<"getpwuid_r did not find a match">>

\* the condition of the if at lines 126-128
lineIsShown(line, base) ==
  \/ logPattern(line, base)
  \/ /\ includes(toLowerCase(line), toLowerCase(debugDylibPattern(base)))
     /\ ~includes(line, HarmlessNotice)

\* /.*?\(.*?\.debug\.dylib\)\s+\[(.*?)\]\s+(.*)/ : the positions <<b, e>> of the
\* "[" and "]" that delimit capture group 1, for every way the pattern can match
extractorCandidates(line) ==
  {be \in (1..Len(line)) \X (1..Len(line)) :
     LET b == be[1]
         e == be[2]
     IN /\ line[b] = "["
        /\ b < e
        /\ line[e] = "]"
        /\ e + 1 <= Len(line)
        /\ IsSpace(line[e + 1])
        /\ \E j \in 1..(b - 1) :
             /\ line[j] = ".debug.dylib"
             /\ j + 2 < b
             /\ line[j + 1] = ")"
             /\ \A k \in (j + 2)..(b - 1) : IsSpace(line[k])
             /\ \E i \in 1..(j - 1) : line[i] = "("}

\* line.match(messageExtractor): {} when there is no match, else the one
\* record [tag, message] the lazy quantifiers select (leftmost "[", then the
\* first "]" that is followed by white space)
messageExtractor(line) ==
  LET cands == extractorCandidates(line)
  IN IF cands = {} THEN {}
     ELSE LET b == Min({be[1] : be \in cands})
              e == Min({be[2] : be \in {c \in cands : c[1] = b}})
              rest == {m \in (e + 1)..(Len(line) + 1) :
                         \A k \in (e + 1)..(m - 1) : IsSpace(line[k])}
              m == Max(rest)
          IN {[tag |-> SubSeq(line, b + 1, e - 1), message |-> SubSeq(line, m, Len(line))]}

\* subsystemCategory.split(':').shift() || 'Log'
categoryOfFirst(subsystemCategory) ==
  LET parts == split(subsystemCategory, ":")
      first == parts[1]
  IN IF first = <<>> THEN <<"Log">> ELSE first

\* subsystemCategory.split(':').pop() || 'Log'
categoryOf(subsystemCategory) ==
  LET parts == split(subsystemCategory, ":")
      last == parts[Len(parts)]
  IN IF last = <<>> THEN <<"Log">> ELSE last

\* a detection that lets the tag decide before the line is looked at
detectLogLevelTagFirst(line, subsystemCategory) ==
  LET l == toLowerCase(line)
      c == toLowerCase(subsystemCategory)
  IN IF includes(c, <<"error">>) THEN "error"
     ELSE IF includes(c, <<"warn">>) THEN "warning"
     ELSE IF includes(c, <<"debug">>) THEN "debug"
     ELSE IF includes(l, <<" ", "error">>) THEN "error"
     ELSE IF includes(l, <<" ", "warn">>) THEN "warning"
     ELSE IF includes(l, <<" ", "info">>) \/ includes(c, <<"info">>) THEN "info"
     ELSE IF includes(l, <<" ", "debug">>) THEN "debug"
     ELSE IF includes(l, <<" ", "fault">>) \/ includes(c, <<"fault">>) THEN "fault"
     ELSE "default"

\* lines 139-150
detectLogLevel(line, subsystemCategory) ==
  LET l == toLowerCase(line)
      c == toLowerCase(subsystemCategory)
  IN IF includes(l, <<" ", "error">>) \/ includes(c, <<"error">>) THEN "error"
     ELSE IF includes(l, <<" ", "warn">>) \/ includes(c, <<"warn">>) THEN "warning"
     ELSE IF includes(l, <<" ", "info">>) \/ includes(c, <<"info">>) THEN "info"
     ELSE IF includes(l, <<" ", "debug">>) \/ includes(c, <<"debug">>) THEN "debug"
     ELSE IF includes(l, <<" ", "fault">>) \/ includes(c, <<"fault">>) THEN "fault"
     ELSE "default"

\* a table whose default entry carries the glyph of info
logLevelToEmojiInfoDefault(level) ==
  CASE level = "default" -> "<information>"
    [] level = "info" -> "<information>"
    [] level = "debug" -> "<beetle>"
    [] level = "error" -> "<cross>"
    [] level = "fault" -> "<collision>"
    [] level = "warning" -> "<warning>"
    [] OTHER -> "<information>"

\* lines 112-119; the glyphs are named, the module being plain ASCII
logLevelToEmoji(level) ==
  CASE level = "default" -> "<memo>"
    [] level = "info" -> "<information>"
    [] level = "debug" -> "<beetle>"
    [] level = "error" -> "<cross>"
    [] level = "fault" -> "<collision>"
    [] level = "warning" -> "<warning>"
    [] OTHER -> "<memo>"

Separator == <<"---------------">>

\* what the loop body at lines 126-171 appends for one line: a sequence of
\* [text, kind] display lines
formatLine(line, base) ==
  IF ~lineIsShown(line, base) THEN <<>>
  ELSE IF messageExtractor(line) # {}
  THEN LET match == CHOOSE r \in messageExtractor(line) : TRUE
           emoji == logLevelToEmoji(detectLogLevel(line, match.tag))
       IN << [text |-> <<emoji, "  ", "[">> \o categoryOf(match.tag) \o <<"]">>, kind |-> "header"],
             [text |-> match.message, kind |-> "message"],
             [text |-> Separator, kind |-> "separator"] >>
  ELSE << [text |-> line, kind |-> "raw"] >>

(***************************************************************************)
(* The display sink.  An entry is one appended line: its text, its kind,   *)
(* and the origin of the line (the subprocess whose callback or whose      *)
(* start appended it, the number of the stdout chunk and the position of   *)
(* the raw line in the chunk).                                             *)
(***************************************************************************)
Entry(text, kind, p, n, i) == [text |-> text, kind |-> kind, by |-> p, chunk |-> n, line |-> i]

\* the Logger of ../common/logger.js owns the output channel
LoggerChannel == "channel"

\* simulatorLogger.log / simulatorLogger.error: the fallback of every handler
loggerLog(s, entries) ==
  s \o [k \in 1..Len(entries) |-> [entries[k] EXCEPT !.kind = "logger"]]

\* if (outputChannel) outputChannel.appendLine(...) else simulatorLogger.log(...)
appendLines(s, ch, entries) == IF ch # "null" THEN s \o entries ELSE loggerLog(s, entries)

\* a clear() that leaves the content in place
clearKeeps(s) == s

\* outputChannel.clear() (line 73)
clear(s) == <<>>

\* lines 74-76
Banner(base, p) ==
  << Entry(<<"<magnifier> Filtering logs for: ">> \o debugDylibPattern(base), "banner", p, 0, 1),
     Entry(<<"<stopwatch> Started: ", "<time>">>, "banner", p, 0, 2),
     Entry(<<"-----------------------------------">>, "banner", p, 0, 3) >>

\* lines 78-79
FallbackBanner(base, p) ==
  << Entry(<<"Filtering logs for: ">> \o debugDylibPattern(base), "banner", p, 0, 1),
     Entry(<<"Log stream started - filtering for: ">> \o debugDylibPattern(base), "banner", p, 0, 2) >>

tagged(fs, p, n, i) == [k \in 1..Len(fs) |-> Entry(fs[k].text, fs[k].kind, p, n, i)]

RECURSIVE stdoutFrom(_, _, _, _, _)
stdoutFrom(lines, i, p, n, base) ==
  IF i > Len(lines) THEN <<>>
  ELSE tagged(formatLine(lines[i], base), p, n, i) \o stdoutFrom(lines, i + 1, p, n, base)

\* a handler that walks the lines of the chunk from the last to the first
stdoutEntriesBackwards(data, p, n, base) ==
  LET es == stdoutFrom(split(data, "\n"), 1, p, n, base)
  IN [k \in 1..Len(es) |-> es[Len(es) + 1 - k]]

\* a handler that takes the first piece of every chunk after the first for
\* the rest of the line the chunk before it ended with, and skips it
stdoutEntriesJoined(data, p, n, base) ==
  stdoutFrom(split(data, "\n"), IF n = 1 THEN 1 ELSE 2, p, n, base)

\* the stdout 'data' handler (lines 122-173): what chunk number n of
\* subprocess p appends
stdoutEntries(data, p, n, base) == stdoutFrom(split(data, "\n"), 1, p, n, base)

\* the stderr 'data' handler (lines 175-181)
stderrEntries(data, p) == << Entry(<<"<cross> Error: ">> \o data, "stderr", p, 0, 0) >>

\* the 'error' handler (lines 183-189)
errorEntries(message, p) == << Entry(<<"<cross> Log streaming error: ">> \o message, "error", p, 0, 0) >>

\* a 'close' handler that also reports the null code of a signal
closeWritesNonZero(code) == code # {0}

\* the 'close' handler (lines 191-200)
closeWrites(code) == code # {0} /\ code # NoCode

\* `${code}`
codeText(code) ==
  CASE code = {0} -> "0"
    [] code = {1} -> "1"
    [] code = {ENOENT} -> "-2"
    [] OTHER -> "null"

closeEntries(code, p) ==
  IF closeWrites(code)
  THEN << Entry(<<"<warning> Log streaming process exited with code ">> \o <<codeText(code)>>, "exit", p, 0, 0) >>
  ELSE <<>>

\* a 'close' handler that leaves the handle in place
handleKept(lp, p) == lp

\* logsProcess = null (line 199)
handleAfterClose(lp, p) == NoProc

(***************************************************************************)
(* Subprocesses.  procs[p] is the p-th subprocess spawned.                 *)
(*   status: "alive"       running, or ended with its 'close' event not    *)
(*                         yet delivered                                   *)
(*           "spawnFailed" could not be spawned, 'error' event queued      *)
(*           "errored"     'error' delivered, 'close' not yet delivered    *)
(*           "closed"      'close' delivered                               *)
(***************************************************************************)
NewProc(base, spawnFails) ==
  [status |-> IF spawnFails THEN "spawnFailed" ELSE "alive",
   killCalled |-> FALSE,
   nout |-> 0,
   base |-> base,
   result |-> "resolved"]

Procs == 1..Len(procs)

Alive(p) == procs[p].status = "alive"

HasHandle(ps, p) == ps[p].status = "alive"

\* a start without the try/catch around kill()
killEscapesUncaught(throws) == throws

\* try { kill } catch (error) { } (lines 52-56): whether what kill() throws
\* leaves streamLogsToChannel
killEscapes(throws) == FALSE

\* lines 51-58: logsProcess.kill('SIGTERM') inside try/catch
killExisting(ps, lp, throws) ==
  IF lp # NoProc
  THEN [ps EXCEPT ![lp].killCalled = TRUE]
  ELSE ps

\* the 'error' and the 'close' event of a subprocess that could not be spawned
\* are queued by spawn itself (process.nextTick) and are delivered before any
\* other event
TickPending == \E p \in Procs : procs[p].status \in {"spawnFailed", "errored"}

(***************************************************************************)
(* streamSimulatorLogsCommand (lines 329-376): the context it resolves.    *)
(* An optional value is the empty set or a singleton.                      *)
(***************************************************************************)
SimDest == [id |-> "sim", type |-> <<"iOS", "Simulator">>]
DevDest == [id |-> "dev", type |-> <<"iOS", "Device">>]
GoneDest == [id |-> "gone", type |-> <<"iOS", "Simulator">>]

\* destinationsManager.getDestinations()
Destinations == {SimDest, DevDest}

\* the contexts the command is called in
Contexts ==
  { [sel |-> {}, lc |-> {[appPath |-> <<"/", "a", "/", "MyApp", ".app">>]}],
    [sel |-> {DevDest}, lc |-> {[appPath |-> <<"/", "a", "/", "MyApp", ".app">>]}],
    [sel |-> {GoneDest}, lc |-> {[appPath |-> <<"/", "a", "/", "MyApp", ".app">>]}],
    [sel |-> {SimDest}, lc |-> {}],
    [sel |-> {SimDest}, lc |-> {[appPath |-> <<>>]}],
    [sel |-> {SimDest}, lc |-> {[appPath |-> <<"/", "a", "/", "MyApp", ".app">>]}] }

\* a resolution that accepts a destination of any type
resolutionErrorAnyType(sel, lc) ==
  IF sel = {} THEN "No destination selected"
  ELSE LET selected == CHOOSE d \in sel : TRUE
           found == {d \in Destinations : d.id = selected.id /\ d.type = selected.type}
       IN IF found = {} THEN "No simulator selected"
          ELSE IF lc = {} THEN "No app has been launched yet"
          ELSE IF (CHOOSE c \in lc : TRUE).appPath = <<>> THEN "Could not determine app path"
          ELSE "none"

\* lines 330-364: the message of the ExtensionError thrown, or "none"
resolutionError(sel, lc) ==
  IF sel = {} THEN "No destination selected"
  ELSE LET selected == CHOOSE d \in sel : TRUE
           found == {d \in Destinations : d.id = selected.id /\ d.type = selected.type}
       IN IF found = {} \/ ~includes((CHOOSE d \in found : TRUE).type, <<"Simulator">>)
          THEN "No simulator selected"
          ELSE IF lc = {} THEN "No app has been launched yet"
          ELSE IF (CHOOSE c \in lc : TRUE).appPath = <<>> THEN "Could not determine app path"
          ELSE "none"

(***************************************************************************)
(* The record of the last step: the operation, the subprocess it concerns, *)
(* the exit code it carries, whether that subprocess was the active        *)
(* handle, what the command returned to its caller, and (for a start)      *)
(* the step before it and whether kill() threw.                            *)
(***************************************************************************)
Op(op, p, code, active, result, after) ==
  [op |-> op, proc |-> p, code |-> code, active |-> active, result |-> result, after |-> after,
   threw |-> FALSE]

\* what a start remembers of the step before it
AfterTag(o) ==
  IF o.op = "start" THEN "start"
  ELSE IF o.op = "close" /\ o.active /\ o.code = {1} THEN "crash"
  ELSE "other"

Event(op, p, code, active) == Op(op, p, code, active, "none", "")

NoOp == Event("none", NoProc, NoCode, FALSE)

Init ==
  /\ logsProcess = NoProc
  /\ outputChannel = "null"
  /\ procs = <<>>
  /\ sink = <<>>
  /\ visible = FALSE
  /\ clearCount = 0
  /\ ndata = 0
  /\ lastOp = NoOp

(***************************************************************************)
(* Actions.                                                                *)
(***************************************************************************)
\* streamSimulatorLogsCommand throws before it reaches streamLogsToChannel
CommandRejected(sel, lc) ==
  /\ ~TickPending
  /\ resolutionError(sel, lc) # "none"
  /\ lastOp' = Op("command", NoProc, NoCode, FALSE, "rejected", "")
  /\ UNCHANGED <<logsProcess, outputChannel, procs, sink, visible, clearCount, ndata>>

\* a start that appends the banner and clears the channel afterwards
startSinkClearsLast(s, ch, base, p) ==
  IF ch # "null" THEN clear(s \o Banner(base, p)) ELSE loggerLog(s, FallbackBanner(base, p))

\* the sink after lines 66-80
startSink(s, ch, base, p) ==
  IF ch # "null" THEN clear(s) \o Banner(base, p) ELSE loggerLog(s, FallbackBanner(base, p))

\* streamSimulatorLogsCommand resolves its context and runs streamLogsToChannel
\* (lines 49-204) to its end; throws: kill() throws; spawnFails: xcrun cannot
\* be spawned, which Node reports by an 'error' event on the returned handle
CommandStarts(sel, lc, throws, spawnFails) ==
  /\ ~TickPending
  /\ resolutionError(sel, lc) = "none"
  /\ Len(procs) + ndata < MaxEvents
  /\ LET appPath == (CHOOSE c \in lc : TRUE).appPath
         base == baseAppName(extractAppName(appPath))
         p == Len(procs) + 1
         ch == IF outputChannel = "null" THEN LoggerChannel ELSE outputChannel
     IN IF logsProcess # NoProc /\ killEscapes(throws)
        THEN \* the catch of lines 372-374 turns the exception into an ExtensionError
             /\ lastOp' = [Op("start", logsProcess, NoCode, TRUE, "rejected", AfterTag(lastOp))
                             EXCEPT !.threw = throws]
             /\ procs' = killExisting(procs, logsProcess, throws)
             /\ sink' = loggerLog(sink, << Entry(<<"Filtering logs for app: ">> \o extractAppName(appPath),
                                                 "logger", logsProcess, 0, 0) >>)
             /\ UNCHANGED <<logsProcess, outputChannel, visible, clearCount, ndata>>
        ELSE /\ lastOp' = [Op("start", p, NoCode, logsProcess # NoProc, "resolved", AfterTag(lastOp))
                             EXCEPT !.threw = throws]
             /\ procs' = Append(killExisting(procs, logsProcess, throws), NewProc(base, spawnFails))
             /\ visible' = TRUE
             /\ outputChannel' = ch
             /\ sink' = startSink(sink, ch, base, p)
             /\ clearCount' = IF ch # "null" THEN clearCount + 1 ELSE clearCount
             /\ logsProcess' = p
             /\ UNCHANGED ndata

\* the 'error' event of a subprocess that could not be spawned
LaunchError(p) ==
  /\ procs[p].status = "spawnFailed"
  /\ procs' = [procs EXCEPT ![p].status = "errored"]
  /\ sink' = appendLines(sink, outputChannel, errorEntries(<<"spawn xcrun ENOENT">>, p))
  /\ lastOp' = Event("error", p, NoCode, logsProcess = p)
  /\ UNCHANGED <<logsProcess, outputChannel, visible, clearCount, ndata>>

\* the codes of a 'close' event: an exit code, or NoCode when a signal
\* ended the subprocess
ExitCodes == {{0}, {1}, NoCode}

\* the subprocess ends and its 'close' event is delivered
Close(p, code) ==
  /\ \/ procs[p].status = "alive" /\ code \in ExitCodes /\ ~TickPending
     \/ procs[p].status = "errored" /\ code = {ENOENT}
  /\ procs' = [procs EXCEPT ![p].status = "closed"]
  /\ sink' = appendLines(sink, outputChannel, closeEntries(code, p))
  /\ logsProcess' = handleAfterClose(logsProcess, p)
  /\ lastOp' = Event("close", p, code, logsProcess = p)
  /\ UNCHANGED <<outputChannel, visible, clearCount, ndata>>

StdoutChunks ==
  { <<"x", " ", "(", "MyApp", ".debug.dylib", ")", " ", "[", "com", ":", "UI", "]", " ", "tapped",
      "\n", "Loaded", " ", "MyApp", ".debug.dylib">>,
    <<"by", " ", "x", " ", "MyApp", ".debug.dylib", "\n", "x", "\n",
      "(", "MyApp", ".debug.dylib", ")", " ", "[", "Network", "Error", "]", " ", "x">> }


\* a stdout 'data' event
Stdout(p, data) ==
  /\ ~TickPending
  /\ HasHandle(procs, p)
  /\ Len(procs) + ndata < MaxEvents
  /\ ndata' = ndata + 1
  /\ procs' = [procs EXCEPT ![p].nout = @ + 1]
  /\ sink' = appendLines(sink, outputChannel, stdoutEntries(data, p, procs[p].nout + 1, procs[p].base))
  /\ lastOp' = Event("stdout", p, NoCode, logsProcess = p)
  /\ UNCHANGED <<logsProcess, outputChannel, visible, clearCount>>

StderrChunks ==
  { <<"getpwuid_r did not find a match", " ", "for uid 501">>, <<"x">> }

\* a stderr 'data' event
Stderr(p, data) ==
  /\ ~TickPending
  /\ HasHandle(procs, p)
  /\ Len(procs) + ndata < MaxEvents
  /\ ndata' = ndata + 1
  /\ sink' = appendLines(sink, outputChannel, stderrEntries(data, p))
  /\ lastOp' = Event("stderr", p, NoCode, logsProcess = p)
  /\ UNCHANGED <<logsProcess, outputChannel, procs, visible, clearCount>>

\* a focus that empties the channel it shows
FocusClears ==
  /\ ~TickPending
  /\ visible' = TRUE
  /\ sink' = clear(sink)
  /\ lastOp' = Event("focus", NoProc, NoCode, FALSE)
  /\ UNCHANGED <<logsProcess, outputChannel, procs, clearCount, ndata>>

\* focusSimulatorLogs (lines 40-42)
Focus ==
  /\ ~TickPending
  /\ visible' = TRUE
  /\ lastOp' = Event("focus", NoProc, NoCode, FALSE)
  /\ UNCHANGED <<logsProcess, outputChannel, procs, sink, clearCount, ndata>>

\* kill() can throw only on a handle that exists
Throws == IF logsProcess # NoProc /\ HasHandle(procs, logsProcess) THEN BOOLEAN ELSE {FALSE}

Next ==
  \/ \E ctx \in Contexts : CommandRejected(ctx.sel, ctx.lc)
  \/ \E ctx \in Contexts, throws \in Throws, spawnFails \in BOOLEAN :
       CommandStarts(ctx.sel, ctx.lc, throws, spawnFails)
  \/ \E p \in Procs : LaunchError(p)
  \/ \E p \in Procs, code \in ExitCodes \cup {{ENOENT}} : Close(p, code)
  \/ \E p \in Procs, data \in StdoutChunks : Stdout(p, data)
  \/ \E p \in Procs, data \in StderrChunks : Stderr(p, data)
  \/ Focus

Spec == Init /\ [][Next]_vars

(***************************************************************************)
(* Vocabulary of the properties.                                           *)
(***************************************************************************)
LiveProcs == {p \in Procs : Alive(p)}

\* the subprocess spawned by the start that last cleared the sink
CurrentSession == Len(procs)

ExitLinesOf(p) == {i \in 1..Len(sink) : sink[i].kind = "exit" /\ sink[i].by = p}

LastLineIs(kind, p) ==
  /\ sink # <<>>
  /\ sink[Len(sink)].kind = kind
  /\ sink[Len(sink)].by = p

(***************************************************************************)
(* C1.  At most one log-capture subprocess is alive at any moment.         *)
(* The code signals the previous subprocess and spawns the next one        *)
(* without waiting, and the 'close' handler of a superseded subprocess     *)
(* clears the handle of its successor, which a later start then leaves     *)
(* running unsignalled.                                                    *)
(***************************************************************************)
AtMostOneAlive == Cardinality(LiveProcs) <= 1

(***************************************************************************)
(* C2.  When a start has returned, every subprocess spawned by an earlier  *)
(* start that has not ended has been sent a termination signal.            *)
(***************************************************************************)
NoLeakAfterStart ==
  lastOp.op = "start" =>
    \A p \in Procs : (p # lastOp.proc /\ Alive(p)) => procs[p].killCalled

(***************************************************************************)
(* C3.  After a start has cleared the sink, every line of the sink comes   *)
(* from the banner of that start or from the subprocess it spawned.        *)
(***************************************************************************)
SinkOnlyCurrentSession == \A i \in 1..Len(sink) : sink[i].by = CurrentSession

(***************************************************************************)
(* C4.  Two starts in succession leave the second subprocess as the one    *)
(* installed handle, the first has been sent the termination signal, the   *)
(* sink has been cleared once per call and holds the second banner only.   *)
(***************************************************************************)
StartTwice ==
  (lastOp.op = "start" /\ lastOp.after = "start") =>
    /\ logsProcess = lastOp.proc
    /\ logsProcess = Len(procs)
    /\ procs[logsProcess - 1].killCalled
    /\ clearCount = Len(procs)
    /\ sink = Banner(procs[logsProcess].base, logsProcess)

StartTwiceReached ==
  /\ lastOp.op = "start"
  /\ lastOp.after = "start"
  /\ lastOp.active
  /\ Len(procs) >= 2
  /\ Alive(Len(procs) - 1)

(***************************************************************************)
(* C5.  When the active subprocess closes with exit code 1, exactly one    *)
(* warning line is appended and the handle becomes empty; the handle then  *)
(* stays empty until a start, and that start spawns a subprocess without   *)
(* calling kill on anything.                                               *)
(***************************************************************************)
CrashThenStart ==
  [][ /\ (lastOp'.op = "close" /\ lastOp'.active /\ lastOp'.code = {1}) =>
           /\ sink' = Append(sink, Entry(<<"<warning> Log streaming process exited with code ", "1">>,
                                         "exit", lastOp'.proc, 0, 0))
           /\ logsProcess' = NoProc
      /\ (logsProcess = NoProc /\ lastOp'.op # "start") => logsProcess' = NoProc
      /\ (logsProcess = NoProc /\ lastOp'.op = "start") =>
           /\ Len(procs') = Len(procs) + 1
           /\ logsProcess' = Len(procs')
           /\ \A p \in Procs : procs'[p].killCalled = procs[p].killCalled
    ]_vars

CrashThenStartReached ==
  /\ lastOp.op = "start"
  /\ lastOp.after = "crash"
  /\ ~lastOp.active
  /\ logsProcess = Len(procs)
  /\ ~procs[Len(procs) - 1].killCalled

(***************************************************************************)
(* C6 as claimed.  Every close with a code other than 0, the null code of  *)
(* a termination by signal included, appends the warning line; a close     *)
(* with code 0 appends none; the handle is cleared in both cases.          *)
(***************************************************************************)
EveryCrashWarns ==
  lastOp.op = "close" =>
    /\ logsProcess = NoProc
    /\ lastOp.code # {0} => LastLineIs("exit", lastOp.proc)
    /\ lastOp.code = {0} => ExitLinesOf(lastOp.proc) = {}

(***************************************************************************)
(* C6 as amended.  A close with a non-zero exit code appends the warning   *)
(* line; a close with code 0 and a close after a termination by signal     *)
(* (null code) append none; the handle is cleared in every case.           *)
(***************************************************************************)
NonZeroCodeWarns ==
  lastOp.op = "close" =>
    /\ logsProcess = NoProc
    /\ (lastOp.code # {0} /\ lastOp.code # NoCode) =>
         (LastLineIs("exit", lastOp.proc) /\ Cardinality(ExitLinesOf(lastOp.proc)) = 1)
    /\ (lastOp.code = {0} \/ lastOp.code = NoCode) => ExitLinesOf(lastOp.proc) = {}

SignalCloseReached ==
  /\ lastOp.op = "close"
  /\ lastOp.code = NoCode
  /\ lastOp.active
  /\ procs[lastOp.proc].status = "closed"

(***************************************************************************)
(* C7.  A launch error is appended to the sink as an error line and the    *)
(* start that spawned the subprocess fails to its caller.                  *)
(***************************************************************************)
LaunchErrorReported ==
  lastOp.op = "error" =>
    /\ LastLineIs("error", lastOp.proc)
    /\ procs[lastOp.proc].result = "rejected"

(***************************************************************************)
(* C8.  A call of streamSimulatorLogsCommand whose context cannot be       *)
(* resolved (no selected destination, the selected destination is not a    *)
(* known simulator, no last-launched-app record, no application path)      *)
(* fails to the caller and leaves the handle, the subprocesses and the     *)
(* sink as they were.                                                      *)
(***************************************************************************)
Unresolvable(ctx) ==
  \/ ctx.sel = {}
  \/ \A d \in ctx.sel : d \notin Destinations \/ d.type[Len(d.type)] # "Simulator"
  \/ ctx.lc = {}
  \/ \A c \in ctx.lc : Len(c.appPath) = 0

\* a step that is a call of the command in the context ctx
CommandCall(ctx) ==
  \/ CommandRejected(ctx.sel, ctx.lc)
  \/ \E throws \in BOOLEAN, spawnFails \in BOOLEAN :
       CommandStarts(ctx.sel, ctx.lc, throws, spawnFails)

\* only a call of the command returns a result
ResolutionFailureIsInert ==
  [][ lastOp'.result # "none" =>
        \A ctx \in Contexts :
          (Unresolvable(ctx) /\ CommandCall(ctx)) =>
            /\ lastOp'.result = "rejected"
            /\ UNCHANGED <<logsProcess, outputChannel, procs, sink, clearCount>>
    ]_vars

ResolutionFailureReached ==
  /\ lastOp.op = "command"
  /\ lastOp.result = "rejected"
  /\ logsProcess # NoProc
  /\ Alive(logsProcess)
  /\ Len(sink) > 3

(***************************************************************************)
(* C9.  The lines one subprocess's stdout handler appended stand in the    *)
(* sink in the order of the raw lines they come from (earlier chunk        *)
(* first, then earlier line of the chunk), and the header, message and     *)
(* separator of one matched record are adjacent, in that order.            *)
(***************************************************************************)
StdoutKinds == {"header", "message", "separator", "raw"}

Before(a, b) == a.chunk < b.chunk \/ (a.chunk = b.chunk /\ a.line <= b.line)

SameRawLine(a, b) == a.by = b.by /\ a.chunk = b.chunk /\ a.line = b.line

StdoutOrderKept ==
  /\ \A i, j \in 1..Len(sink) :
       (i < j /\ sink[i].by = sink[j].by
          /\ sink[i].kind \in StdoutKinds /\ sink[j].kind \in StdoutKinds)
         => Before(sink[i], sink[j])
  /\ \A i \in 1..Len(sink) :
       /\ sink[i].kind = "header" =>
            /\ i + 2 <= Len(sink)
            /\ sink[i + 1].kind = "message" /\ SameRawLine(sink[i], sink[i + 1])
            /\ sink[i + 2].kind = "separator" /\ SameRawLine(sink[i], sink[i + 2])
       /\ sink[i].kind = "message" => (i > 1 /\ sink[i - 1].kind = "header")
       /\ sink[i].kind = "separator" => (i > 2 /\ sink[i - 2].kind = "header")
  /\ \A i, j \in 1..Len(sink) :
       (i < j /\ SameRawLine(sink[i], sink[j])
          /\ sink[i].kind \in StdoutKinds /\ sink[j].kind \in StdoutKinds)
         => (sink[i].kind = "header" \/ (sink[i].kind = "message" /\ sink[j].kind = "separator"))

StdoutOrderReached ==
  \E i, j, k \in 1..Len(sink) :
    /\ i < j /\ j < k
    /\ sink[i].by = sink[k].by
    /\ sink[i].kind \in StdoutKinds /\ sink[k].kind \in StdoutKinds
    /\ sink[i].chunk = 1 /\ sink[k].chunk = 2
    /\ sink[i].line # sink[j].line /\ sink[i].chunk = sink[j].chunk /\ sink[i].by = sink[j].by
    /\ sink[k].kind = "header"

(***************************************************************************)
(* C10.  A stderr chunk that contains the harmless notice "getpwuid_r did  *)
(* not find a match" produces no line in the sink.                         *)
(***************************************************************************)
HarmlessStderrDropped ==
  \A i \in 1..Len(sink) : sink[i].kind = "stderr" => ~includes(sink[i].text, HarmlessNotice)

(***************************************************************************)
(* C11.  focusSimulatorLogs can be called whenever a command can run, with *)
(* or without an active session, and a call leaves the handle, the         *)
(* subprocesses and the content of the sink as they were.                  *)
(***************************************************************************)
FocusIsInert ==
  /\ [](~TickPending => ENABLED Focus)
  /\ [][lastOp'.op = "focus" => UNCHANGED <<logsProcess, procs, sink>>]_vars

FocusReached ==
  /\ lastOp.op = "focus"
  /\ logsProcess # NoProc
  /\ Alive(logsProcess)
  /\ Len(sink) > 3
  /\ visible

(***************************************************************************)
(* The classifier on its own: one session is started for an application    *)
(* path and stdout chunks are fed to its 'data' handler.  Here the record  *)
(* of the last step keeps the inputs: the application path of the session  *)
(* and the chunks fed so far.                                              *)
(***************************************************************************)
\* the number of stdout chunks of a run of the classifier
MaxFeed == 2

\* the longest application path, in tokens
MaxPath == 5

PathNames == {"a", "b", "MyApp"}

PathTokens == PathNames \cup {"/", ".app"}

\* launchContext.appPath (line 360): the non-empty paths in which no
\* component is empty and ".app" is the suffix of a name
AppPaths ==
  {p \in UNION {[1..n -> PathTokens] : n \in 1..MaxPath} :
     /\ \A k \in 1..Len(p) : p[k] = ".app" => (k > 1 /\ p[k - 1] \in PathNames)
     /\ \A k \in 2..Len(p) : p[k] = "/" => p[k - 1] # "/"
     /\ \E k \in 1..Len(p) : p[k] \in PathNames}

\* the parts of a line of the layout "<pre>(<base>.debug.dylib) [<tag>] <msg>"
Part(pre, tag, msg) == [pre |-> pre, tag |-> tag, msg |-> msg]

Structured ==
  { Part(<<"x", " ">>, <<"com", ":", "UI">>, <<"tapped">>),
    Part(<<"x", " ">>, <<"com", ":", "UI">>, <<"request", " ", "timeout", " ", "while", " ", "loading">>),
    Part(<<"x", " ">>, <<"com", ":", "UI">>, <<"low", " ", "warn">>),
    Part(<<"x", " ">>, <<"com", ":", "UI">>, <<"some", " ", "Info">>),
    Part(<<"x", " ">>, <<"com", ":", "UI">>, <<"debug">>),
    Part(<<"x", " ">>, <<"com", ":", "UI">>, <<"a", " ", "Fault">>),
    Part(<<>>, <<"com", ":", "UI">>, <<"network", " ", "error">>),
    Part(<<"x", " ">>, <<"com", ":", "Warn", "ings">>, <<"network", " ", "error">>),
    Part(<<"x", " ">>, <<"com", ":", "Warn", "ings">>, <<"tapped">>),
    Part(<<"x", " ">>, <<"com", ":", "Network", "Error">>, <<"tapped">>),
    Part(<<"x", " ">>, <<"com", ":", "Debug">>, <<"low", " ", "warn">>),
    Part(<<"x", " ">>, <<"com", ":", "Debug">>, <<"tapped">>),
    Part(<<"x", " ">>, <<"UI">>, <<"tapped">>),
    Part(<<"x", " ">>, <<"a", ":", "b", ":", "UI">>, <<"tapped">>),
    Part(<<"x", " ">>, <<"com", ":">>, <<"tapped">>),
    Part(<<"x", " ">>, <<>>, <<"tapped">>),
    Part(<<"x", " ">>, <<"com", ":", "UI">>, <<" ", "tapped">>) }

StructuredLine(base, r) ==
  r.pre \o <<"(">> \o base \o <<".debug.dylib", ")", " ", "[">> \o r.tag \o <<"]", " ">> \o r.msg

\* a line cut in two by a chunk boundary
CutHead(base) == <<"x", " ", "(">> \o base \o <<".debug.dylib", ")">>

CutTail == <<" ", "[", "com", ":", "UI", "]", " ", "tapped">>

\* the chunks the subprocess writes to its stdout (line 122)
FeedChunks(base) ==
  {StructuredLine(base, r) : r \in Structured}
    \cup { <<"getpwuid_r did not find a match", " ", "for uid 501">>,
           <<"(">> \o base \o <<".debug.dylib", ")", " ", "getpwuid_r did not find a match">>,
           <<"Loaded", " ">> \o base \o <<".debug.dylib", " ", "getpwuid_r did not find a match">>,
           <<"Loaded", " ">> \o base \o <<".debug.dylib">>,
           <<"x">>,
           CutHead(base),
           CutTail,
           CutHead(base) \o CutTail \o <<"\n">> \o CutHead(base) \o CutTail,
           <<"x", "\n">> \o CutHead(base) \o CutTail \o <<"\n">> }

\* streamSimulatorLogsCommand from extractAppName on (lines 366-371), and
\* streamLogsToChannel (lines 49-204), in the state after activation
SessionStarts(appPath) ==
  /\ procs = <<>>
  /\ LET base == baseAppName(extractAppName(appPath))
         ch == IF outputChannel = "null" THEN LoggerChannel ELSE outputChannel
     IN /\ procs' = Append(killExisting(procs, logsProcess, FALSE), NewProc(base, FALSE))
        /\ visible' = TRUE
        /\ outputChannel' = ch
        /\ sink' = startSink(sink, ch, base, 1)
        /\ clearCount' = IF ch # "null" THEN clearCount + 1 ELSE clearCount
        /\ logsProcess' = 1
        /\ lastOp' = [op |-> "start", appPath |-> appPath, fed |-> <<>>]
        /\ UNCHANGED ndata

\* a stdout 'data' event of the session (lines 122-173)
Feed(data) ==
  /\ procs # <<>>
  /\ ndata < MaxFeed
  /\ ndata' = ndata + 1
  /\ procs' = [procs EXCEPT ![1].nout = @ + 1]
  /\ sink' = appendLines(sink, outputChannel, stdoutEntries(data, 1, procs[1].nout + 1, procs[1].base))
  /\ lastOp' = [lastOp EXCEPT !.op = "stdout", !.fed = Append(@, data)]
  /\ UNCHANGED <<logsProcess, outputChannel, visible, clearCount>>

\* the filter key of the session
SessionBase == IF procs = <<>> THEN <<>> ELSE procs[1].base

\* the application path of the classifier's session
SessionPaths == { <<"/", "a", "/", "b", "/", "MyApp", ".app">> }

ClassifierNext ==
  \/ \E appPath \in SessionPaths : SessionStarts(appPath)
  \/ \E data \in FeedChunks(SessionBase) : Feed(data)

ClassifierSpec == Init /\ [][ClassifierNext]_vars

\* the filter key on its own: sessions started for every application path
FilterKeyNext == \E appPath \in AppPaths : SessionStarts(appPath)

FilterKeySpec == Init /\ [][FilterKeyNext]_vars

(***************************************************************************)
(* Vocabulary of the classifier properties.                                *)
(***************************************************************************)
Fed == IF procs = <<>> THEN <<>> ELSE lastOp.fed

\* the raw lines that were fed: <<n, i>> is line i of chunk n
FedLines == {ni \in (1..Len(Fed)) \X (1..8) : ni[2] <= Len(split(Fed[ni[1]], "\n"))}

RawLine(ni) == split(Fed[ni[1]], "\n")[ni[2]]

\* the texts the sink holds for a raw line, in the order of the sink
Shown(ni) ==
  LET es == SelectSeq(sink, LAMBDA e : e.kind \in StdoutKinds /\ e.chunk = ni[1] /\ e.line = ni[2])
  IN [k \in 1..Len(es) |-> es[k].text]

\* the texts the sink holds for a chunk
ShownOfChunk(n) ==
  LET es == SelectSeq(sink, LAMBDA e : e.kind \in StdoutKinds /\ e.chunk = n)
  IN [k \in 1..Len(es) |-> es[k].text]

HasWord(s, w) == \E k \in 1..Len(s) : Lower(s[k]) = w

\* the word stands in the line right after a space
SaysAfterSpace(s, w) == \E k \in 1..(Len(s) - 1) : s[k] = " " /\ Lower(s[k + 1]) = w

\* the glyph table of the display format
GlyphOf(level) ==
  CASE level = "default" -> "<memo>"
    [] level = "info" -> "<information>"
    [] level = "debug" -> "<beetle>"
    [] level = "error" -> "<cross>"
    [] level = "fault" -> "<collision>"
    [] level = "warning" -> "<warning>"

\* the three display lines of a matched record
Block(level, category, message) ==
  << <<GlyphOf(level), "  ", "[">> \o category \o <<"]">>, message, Separator >>

\* the glyph and the category of the header the sink holds for a raw line
HeaderGlyph(ni) == Shown(ni)[1][1]

IsBlock(ni) ==
  /\ Len(Shown(ni)) = 3
  /\ Len(Shown(ni)[1]) >= 4
  /\ Shown(ni)[1][2] = "  "
  /\ Shown(ni)[1][3] = "["
  /\ Shown(ni)[3] = Separator

\* the parts of a fed raw line that has the structured layout
PartsOf(ni) == {r \in Structured : StructuredLine(SessionBase, r) = RawLine(ni)}

(***************************************************************************)
(* C12 as claimed.  For a structurally matched line whose tag contains     *)
(* "error", "warn" or "debug" (in any case), the severity is that level,   *)
(* whatever keywords the message contains.                                 *)
(***************************************************************************)
OverrideLevel(tag) ==
  IF HasWord(tag, "error") THEN "error"
  ELSE IF HasWord(tag, "warn") THEN "warning"
  ELSE IF HasWord(tag, "debug") THEN "debug"
  ELSE "none"

CategoryOverrideWins ==
  \A ni \in FedLines : \A r \in PartsOf(ni) :
    OverrideLevel(r.tag) # "none" =>
      (IsBlock(ni) /\ HeaderGlyph(ni) = GlyphOf(OverrideLevel(r.tag)))

(***************************************************************************)
(* C12 as amended.  The levels are tried in the order error, warning,      *)
(* info, debug, fault, and a level is taken when its word stands in the    *)
(* line after a space or anywhere in the tag.  So a tag containing         *)
(* "error" always gives error; a tag containing "warn" gives warning       *)
(* unless the line says " error", and then error; a tag containing         *)
(* "debug" gives debug unless the line or the tag names error, warn or     *)
(* info.                                                                   *)
(***************************************************************************)
Names(r, w) == HasWord(r.tag, w) \/ SaysAfterSpace(StructuredLine(SessionBase, r), w)

CategoryOverrideRanked ==
  \A ni \in FedLines : \A r \in PartsOf(ni) :
    /\ HasWord(r.tag, "error") => (IsBlock(ni) /\ HeaderGlyph(ni) = GlyphOf("error"))
    /\ (HasWord(r.tag, "warn") /\ ~Names(r, "error")) =>
         (IsBlock(ni) /\ HeaderGlyph(ni) = GlyphOf("warning"))
    /\ (HasWord(r.tag, "warn") /\ Names(r, "error")) =>
         (IsBlock(ni) /\ HeaderGlyph(ni) = GlyphOf("error"))
    /\ (HasWord(r.tag, "debug") /\ ~Names(r, "error") /\ ~Names(r, "warn") /\ ~Names(r, "info")) =>
         (IsBlock(ni) /\ HeaderGlyph(ni) = GlyphOf("debug"))
    /\ (HasWord(r.tag, "debug") /\ ~Names(r, "error") /\ Names(r, "warn")) =>
         (IsBlock(ni) /\ HeaderGlyph(ni) = GlyphOf("warning"))

\* a line with a "warn" tag and an error message, and a line with the tag
\* com:NetworkError and a message without keyword, have been formatted
CategoryOverrideReached ==
  /\ \E ni \in FedLines : \E r \in PartsOf(ni) :
       HasWord(r.tag, "warn") /\ SaysAfterSpace(r.msg, "error") /\ IsBlock(ni)
  /\ \E ni \in FedLines : \E r \in PartsOf(ni) :
       HasWord(r.tag, "error") /\ r.msg = <<"tapped">> /\ IsBlock(ni)

(***************************************************************************)
(* C13 as claimed.  For a structurally matched line with a neutral tag the *)
(* severity comes from the keywords of the message: error keywords give    *)
(* error, else warning keywords (such as "timeout") give warning, else     *)
(* debug keywords give debug, and the severity is info when the message    *)
(* has no keyword; the header carries the glyph of that severity.          *)
(***************************************************************************)
ErrorWords == {"fail", "error", "exception", "crash", "invalid", "unable", "not found"}

WarningWords == {"warn", "deprecat", "unresponsive", "elevated", "excessive", "timeout", "slow"}

DebugWords == {"debug", "trace", "verbose"}

KeywordLevel(msg) ==
  IF \E k \in 1..Len(msg) : Lower(msg[k]) \in ErrorWords THEN "error"
  ELSE IF \E k \in 1..Len(msg) : Lower(msg[k]) \in WarningWords THEN "warning"
  ELSE IF \E k \in 1..Len(msg) : Lower(msg[k]) \in DebugWords THEN "debug"
  ELSE "info"

LevelWords == {"error", "warn", "info", "debug", "fault"}

Neutral(tag) == \A w \in LevelWords : ~HasWord(tag, w)

KeywordSeverity ==
  \A ni \in FedLines : \A r \in PartsOf(ni) :
    Neutral(r.tag) => (IsBlock(ni) /\ HeaderGlyph(ni) = GlyphOf(KeywordLevel(r.msg)))

(***************************************************************************)
(* C13 as amended.  For a structurally matched line with a neutral tag the *)
(* severity is the first of error, warning, info, debug, fault whose word  *)
(* ("error", "warn", "info", "debug", "fault") stands in the line after a  *)
(* space, and it is default when none does: "request timeout while         *)
(* loading" gives default.  The header carries the glyph of that severity. *)
(***************************************************************************)
LineLevel(line) ==
  IF SaysAfterSpace(line, "error") THEN "error"
  ELSE IF SaysAfterSpace(line, "warn") THEN "warning"
  ELSE IF SaysAfterSpace(line, "info") THEN "info"
  ELSE IF SaysAfterSpace(line, "debug") THEN "debug"
  ELSE IF SaysAfterSpace(line, "fault") THEN "fault"
  ELSE "default"

LevelWordSeverity ==
  \A ni \in FedLines : \A r \in PartsOf(ni) :
    Neutral(r.tag) => (IsBlock(ni) /\ HeaderGlyph(ni) = GlyphOf(LineLevel(RawLine(ni))))

\* the timeout line was formatted with the default glyph and a line that
\* says " warn" with the warning glyph
LevelWordSeverityReached ==
  /\ \E ni \in FedLines : \E r \in PartsOf(ni) :
       /\ Neutral(r.tag)
       /\ HasWord(r.msg, "timeout")
       /\ IsBlock(ni)
       /\ HeaderGlyph(ni) = "<memo>"
  /\ \E ni \in FedLines : \E r \in PartsOf(ni) :
       /\ Neutral(r.tag)
       /\ SaysAfterSpace(r.msg, "warn")
       /\ IsBlock(ni)
       /\ HeaderGlyph(ni) = "<warning>"

(***************************************************************************)
(* C14 as claimed.  For a line of the layout                               *)
(* "(<base>.debug.dylib) [<tag>] <msg>" the category of the header is the  *)
(* text after the last ":" of the tag, and "Log" when the tag has no       *)
(* colon; the message line is <msg> exactly.                               *)
(***************************************************************************)
Colons(tag) == {k \in 1..Len(tag) : tag[k] = ":"}

AfterLastColon(tag) ==
  IF Colons(tag) = {} THEN tag ELSE SubSeq(tag, Max(Colons(tag)) + 1, Len(tag))

HeaderCategory(ni) == SubSeq(Shown(ni)[1], 4, Len(Shown(ni)[1]) - 1)

CategoryOrLog ==
  \A ni \in FedLines : \A r \in PartsOf(ni) :
    /\ IsBlock(ni)
    /\ HeaderCategory(ni) = (IF Colons(r.tag) = {} THEN <<"Log">> ELSE AfterLastColon(r.tag))
    /\ Shown(ni)[2] = r.msg

(***************************************************************************)
(* C14 as amended.  The category is the text after the last ":" of the     *)
(* tag, the whole tag when the tag has no colon, and "Log" when that text  *)
(* is empty (an empty tag, or a tag that ends with ":"); the message line  *)
(* is <msg> from its first character that is not white space.              *)
(***************************************************************************)
RECURSIVE TrimStart(_)
TrimStart(s) == IF s # <<>> /\ IsSpace(s[1]) THEN TrimStart(Tail(s)) ELSE s

CategoryAfterLastColon ==
  \A ni \in FedLines : \A r \in PartsOf(ni) :
    /\ IsBlock(ni)
    /\ HeaderCategory(ni) = (IF AfterLastColon(r.tag) = <<>> THEN <<"Log">> ELSE AfterLastColon(r.tag))
    /\ Shown(ni)[2] = TrimStart(r.msg)

\* a line with a tag without colon and a line with a tag that ends with a
\* colon have been formatted
CategoryAfterLastColonReached ==
  /\ \E ni \in FedLines : \E r \in PartsOf(ni) :
       Colons(r.tag) = {} /\ r.tag # <<>> /\ HeaderCategory(ni) = r.tag
  /\ \E ni \in FedLines : \E r \in PartsOf(ni) :
       Colons(r.tag) # {} /\ AfterLastColon(r.tag) = <<>> /\ HeaderCategory(ni) = <<"Log">>

(***************************************************************************)
(* C15.  The filter key of a session started for a non-empty application   *)
(* path is not empty: the base name is the final component of the path (a  *)
(* trailing slash set aside) without its ".app" suffix, and the dylib      *)
(* token, which the banner shows, is the base name followed by             *)
(* ".debug.dylib".                                                         *)
(***************************************************************************)
SansSlash(p) == IF p # <<>> /\ p[Len(p)] = "/" THEN SubSeq(p, 1, Len(p) - 1) ELSE p

FinalComponent(p) ==
  LET s == SansSlash(p)
      slashes == {k \in 1..Len(s) : s[k] = "/"}
  IN IF slashes = {} THEN s ELSE SubSeq(s, Max(slashes) + 1, Len(s))

SansApp(c) == IF c # <<>> /\ c[Len(c)] = ".app" THEN SubSeq(c, 1, Len(c) - 1) ELSE c

FilterKeyDerived ==
  procs # <<>> =>
    /\ SessionBase # <<>>
    /\ SessionBase = SansApp(FinalComponent(lastOp.appPath))
    /\ sink[1].text = <<"<magnifier> Filtering logs for: ">> \o SessionBase \o <<".debug.dylib">>

(***************************************************************************)
(* C16.  A stdout line that contains the harmless notice "getpwuid_r did   *)
(* not find a match" produces no line in the sink, whatever else it        *)
(* contains: the dylib token, or a match of the loose pattern              *)
(* "(loaded|from|by) ... <base>.debug.dylib".                              *)
(***************************************************************************)
IsNoise(line) == \E k \in 1..Len(line) : line[k] = "getpwuid_r did not find a match"

NoiseNeverShown == \A ni \in FedLines : IsNoise(RawLine(ni)) => Shown(ni) = <<>>

(***************************************************************************)
(* C17.  The handle, when it is not empty, is the subprocess spawned last, *)
(* and only a start or the close of the subprocess it refers to changes    *)
(* it: the close of a superseded subprocess leaves the handle of the       *)
(* current session in place.  So the subprocess spawned last is the        *)
(* handle for as long as its own 'close' event has not been delivered.     *)
(***************************************************************************)
HandleIsCurrentSession ==
  /\ logsProcess # NoProc => logsProcess = Len(procs)
  /\ (lastOp.op = "close" /\ lastOp.proc # Len(procs) /\ procs[Len(procs)].status # "closed")
       => logsProcess = Len(procs)

(***************************************************************************)
(* C18.  A start whose kill() of the previous subprocess throws still runs *)
(* to its end: it returns normally, the subprocess it spawned is the       *)
(* handle in place of the old one, the sink was cleared and holds the      *)
(* banner of the new session and nothing else, no error line included.     *)
(***************************************************************************)
KillFailureSwallowed ==
  (lastOp.op = "start" /\ lastOp.threw) =>
    /\ lastOp.result = "resolved"
    /\ lastOp.active
    /\ Len(procs) >= 2
    /\ lastOp.proc = Len(procs)
    /\ logsProcess = Len(procs)
    /\ procs[logsProcess].status \in {"alive", "spawnFailed"}
    /\ procs[logsProcess].nout = 0
    /\ visible
    /\ clearCount = Len(procs)
    /\ sink = Banner(procs[logsProcess].base, logsProcess)
    /\ \A i \in 1..Len(sink) : sink[i].kind \notin {"error", "stderr", "exit", "logger"}

KillFailureReached ==
  /\ lastOp.op = "start"
  /\ lastOp.threw
  /\ lastOp.result = "resolved"
  /\ Len(procs) >= 2
  /\ procs[Len(procs) - 1].killCalled
  /\ Alive(Len(procs) - 1)
  /\ Alive(Len(procs))

(***************************************************************************)
(* C19.  A start is one step: when it has returned, the sink is shown, it  *)
(* was cleared and holds the banner alone, the subprocess spawned is the   *)
(* handle and none of its events has been delivered yet.  Hence a banner   *)
(* in the sink precedes every line its session's subprocess produced, and  *)
(* every line of the subprocess spawned last comes after the banner at     *)
(* the head of the sink.                                                   *)
(***************************************************************************)
SubprocessKinds == StdoutKinds \cup {"stderr", "error", "exit"}

BannerFirst ==
  /\ (lastOp.op = "start" /\ lastOp.result = "resolved") =>
       /\ visible
       /\ sink = Banner(procs[lastOp.proc].base, lastOp.proc)
       /\ logsProcess = lastOp.proc
       /\ lastOp.proc = Len(procs)
       /\ procs[lastOp.proc].status \in {"alive", "spawnFailed"}
       /\ procs[lastOp.proc].nout = 0
       /\ lastOp.active => \E q \in 1..(Len(procs) - 1) : procs[q].killCalled
  /\ \A i, j \in 1..Len(sink) :
       (sink[i].by = sink[j].by /\ sink[i].kind = "banner" /\ sink[j].kind \in SubprocessKinds)
         => i < j
  /\ \A j \in 1..Len(sink) :
       (sink[j].by = CurrentSession /\ sink[j].kind \in SubprocessKinds) =>
         /\ j > 3
         /\ SubSeq(sink, 1, 3) = Banner(procs[CurrentSession].base, CurrentSession)

BannerFirstReached ==
  /\ lastOp.op = "stdout"
  /\ lastOp.proc = CurrentSession
  /\ Len(procs) >= 2
  /\ Len(sink) > 3
  /\ sink[1].kind = "banner"
  /\ sink[4].kind \in StdoutKinds
  /\ sink[4].by = CurrentSession

(***************************************************************************)
(* C20.  The stdout chunks are handled one by one, nothing being kept from *)
(* one chunk to the next: what the sink shows for a chunk depends on that  *)
(* chunk alone, the outputs of the chunks stand in the sink in the order   *)
(* of the chunks, the output of a chunk of two lines is the output of the  *)
(* first line alone followed by the output of the second line alone, and   *)
(* a line cut in two by a chunk boundary is handled as two lines (here     *)
(* the head is shown raw and the tail is dropped, while the whole line is  *)
(* shown as a block).                                                      *)
(***************************************************************************)
OneLine(data) == \A k \in 1..Len(data) : data[k] # "\n"

ChunksIndependent ==
  /\ \A n, m \in 1..Len(Fed) : Fed[n] = Fed[m] => ShownOfChunk(n) = ShownOfChunk(m)
  /\ \A i, j \in 1..Len(sink) :
       (i < j /\ sink[i].kind \in StdoutKinds /\ sink[j].kind \in StdoutKinds)
         => sink[i].chunk <= sink[j].chunk
  /\ \A n, a, b \in 1..Len(Fed) :
       (OneLine(Fed[a]) /\ OneLine(Fed[b]) /\ Fed[n] = Fed[a] \o <<"\n">> \o Fed[b])
         => ShownOfChunk(n) = ShownOfChunk(a) \o ShownOfChunk(b)
  /\ \A n \in 1..(Len(Fed) - 1) :
       (Fed[n] = CutHead(SessionBase) /\ Fed[n + 1] = CutTail) =>
         /\ ShownOfChunk(n) = <<CutHead(SessionBase)>>
         /\ ShownOfChunk(n + 1) = <<>>
  /\ \A n \in 1..Len(Fed) :
       Fed[n] = CutHead(SessionBase) \o CutTail =>
         ShownOfChunk(n) = Block("default", <<"UI">>, <<"tapped">>)

\* a line arrived cut in two chunks
ChunksIndependentReached ==
  /\ Len(Fed) = 2
  /\ Fed[1] = CutHead(SessionBase)
  /\ Fed[2] = CutTail
  /\ ShownOfChunk(1) = <<CutHead(SessionBase)>>
  /\ ShownOfChunk(2) = <<>>
  /\ Len(sink) = 4

====
